---------------------------- MODULE Spec2Model ----------------------------
(***************************************************************************)
(* Model of the ROI analysis engine SyncAnalyzer                           *)
(* (src/src/core/sync_analyzer.py).                                        *)
(*                                                                         *)
(* Numbers.  Times (seconds) are multiples of 1/TimeDen second and are     *)
(* carried as the integer numerator.  Sampling rates are whole Hz.         *)
(* Samples are integers.  A float result is carried exactly as a reduced   *)
(* fraction <<num, den>> (den > 0); Python's None is the empty tuple.      *)
(* Only finite numbers are modelled (no NaN or infinity as an argument).   *)
(***************************************************************************)
EXTENDS Integers, Sequences, FiniteSets, TLC

VARIABLES
    sampling_rate,   \* SyncAnalyzer.sampling_rate (Hz)
    roi_start,       \* SyncAnalyzer.roi_start: None or <<time>>
    roi_end,         \* SyncAnalyzer.roi_end:   None or <<time>>
    roi_ok,          \* history: some set_roi call has returned normally
    call,            \* the last call made: operation, arguments, outcome
    held,            \* a ROIResult returned earlier, kept by the caller
                     \* with the configuration and time array of its call
    data,            \* the window's t, ppg, ecg: None or the recording
    region_ppg,      \* the region of the PPG plot, <<lo, hi>>
    region_ecg,      \* the region of the ECG plot, <<lo, hi>>
    region_sync_lock,   \* ROISyncMixin._region_sync_lock
    stack,           \* the region callbacks running, innermost last
    label_status,    \* the text of the status label
    event            \* history of the last region change made by the user

\* the main window (src/src/ui/main_window.py and its mixins)
window == <<data, region_ppg, region_ecg, region_sync_lock, stack,
            label_status, event>>

vars == <<sampling_rate, roi_start, roi_end, roi_ok, call, held, window>>

\* the state outside the engine
outside == <<held, window>>

-----------------------------------------------------------------------------
(* Bounds of the model *)

TimeDen == 4         \* times are k/TimeDen seconds
MaxTime == 3         \* times range over -2/TimeDen .. MaxTime/TimeDen
MaxLen == 3          \* longest enumerated signal

(* Program constants *)

DefaultFs == 128     \* __init__(sampling_rate=128.0)

-----------------------------------------------------------------------------
(* Values *)

None == <<>>
Some(x) == <<x>>

Min2(a, b) == IF a <= b THEN a ELSE b
Max2(a, b) == IF a >= b THEN a ELSE b
Abs(a) == IF a < 0 THEN -a ELSE a

RECURSIVE GCD(_, _)
GCD(a, b) == IF b = 0 THEN a ELSE GCD(b, a % b)

\* the fraction n/d (d # 0) in lowest terms with a positive denominator
Frac(n, d) ==
    LET g == GCD(Abs(n), Abs(d))
        s == IF d < 0 THEN -1 ELSE 1
    IN  <<(s * n) \div g, (s * d) \div g>>

Times == (0 - 2) .. MaxTime
FsSet == {2, 5, DefaultFs}

\* all sequences over S of length at most n
SeqsUpTo(S, n) == UNION {[1..k -> S] : k \in 0..n}

\* the samples of the enumerated signals
SampleVals == {0, 1}

Signals == SeqsUpTo(SampleVals, MaxLen)

-----------------------------------------------------------------------------
(* Python primitives used by the engine *)

\* int(a / b) for b > 0: truncation toward zero
TruncDiv(a, b) == IF a >= 0 THEN a \div b ELSE 0 - ((0 - a) \div b)

\* one bound of a slice s[a:b] on a sequence of length n: a negative index
\* counts from the end, and everything is clipped to 0..n
SliceIndex(i, n) == IF i < 0 THEN Max2(i + n, 0) ELSE Min2(i, n)

\* s[a:b]
PySlice(s, a, b) ==
    SubSeq(s, SliceIndex(a, Len(s)) + 1, SliceIndex(b, Len(s)))

-----------------------------------------------------------------------------
(* Configuration *)

RegionStart == 2     \* seconds, the regions as _init_roi_sync creates them
RegionEnd == 4

\* the window after _init_roi_sync, before any file is loaded
WindowInit ==
    /\ data = None
    /\ region_ppg = <<RegionStart * TimeDen, RegionEnd * TimeDen>>
    /\ region_ecg = <<RegionStart * TimeDen, RegionEnd * TimeDen>>
    /\ region_sync_lock = FALSE
    /\ stack = <<>>
    /\ label_status = <<"ready">>
    /\ event = None

Config == [fs |-> sampling_rate, rs |-> roi_start, re |-> roi_end]

Init ==
    /\ sampling_rate = DefaultFs
    /\ roi_start = None
    /\ roi_end = None
    /\ roi_ok = FALSE
    /\ call = [op |-> "init", args |-> <<>>, pre |-> <<>>,
               outcome |-> "ok", ret |-> <<>>]
    /\ held = None
    /\ WindowInit

\* a set_sampling_rate that reaches into a ROIResult returned earlier
SetSamplingRateThroughResult(fs) ==
    /\ sampling_rate' = fs
    /\ call' = [op |-> "set_sampling_rate", args |-> <<fs>>, pre |-> Config,
                outcome |-> "ok", ret |-> <<>>]
    /\ UNCHANGED <<roi_start, roi_end, roi_ok>>
    /\ held' = IF held = None THEN None
                ELSE [held EXCEPT !.result.fs = fs]
    /\ UNCHANGED window

\* a set_sampling_rate that also forgets the ROI
SetSamplingRateResetsRoi(fs) ==
    /\ sampling_rate' = fs
    /\ roi_start' = None
    /\ roi_end' = None
    /\ call' = [op |-> "set_sampling_rate", args |-> <<fs>>, pre |-> Config,
                outcome |-> "ok", ret |-> <<>>]
    /\ UNCHANGED roi_ok
    /\ UNCHANGED outside

SetSamplingRate(fs) ==
    /\ sampling_rate' = fs
    /\ call' = [op |-> "set_sampling_rate", args |-> <<fs>>, pre |-> Config,
                outcome |-> "ok", ret |-> <<>>]
    /\ UNCHANGED <<roi_start, roi_end, roi_ok>>
    /\ UNCHANGED outside

\* a guard that lets an empty ROI (end = start) through
RoiRejectedStrict(start_time, end_time) == end_time < start_time

\* the guard of set_roi
RoiRejected(start_time, end_time) == end_time <= start_time

\* a set_roi that stores the bounds before it checks them
SetRoiStoreFirst(start_time, end_time) ==
    /\ roi_start' = Some(start_time)
    /\ roi_end' = Some(end_time)
    /\ IF RoiRejected(start_time, end_time)
       THEN /\ call' = [op |-> "set_roi", args |-> <<start_time, end_time>>,
                        pre |-> Config, outcome |-> "InvalidRange",
                        ret |-> <<>>]
            /\ UNCHANGED roi_ok
       ELSE /\ roi_ok' = TRUE
            /\ call' = [op |-> "set_roi", args |-> <<start_time, end_time>>,
                        pre |-> Config, outcome |-> "ok", ret |-> <<>>]
    /\ UNCHANGED sampling_rate
    /\ UNCHANGED outside

\* a set_roi that clears the stored ROI when it rejects the new one
SetRoiClearsOnReject(start_time, end_time) ==
    /\ IF RoiRejected(start_time, end_time)
       THEN /\ roi_start' = None
            /\ roi_end' = None
            /\ call' = [op |-> "set_roi", args |-> <<start_time, end_time>>,
                        pre |-> Config, outcome |-> "InvalidRange",
                        ret |-> <<>>]
            /\ UNCHANGED roi_ok
       ELSE /\ roi_start' = Some(start_time)
            /\ roi_end' = Some(end_time)
            /\ roi_ok' = TRUE
            /\ call' = [op |-> "set_roi", args |-> <<start_time, end_time>>,
                        pre |-> Config, outcome |-> "ok", ret |-> <<>>]
    /\ UNCHANGED sampling_rate
    /\ UNCHANGED outside

SetRoi(start_time, end_time) ==
    /\ IF RoiRejected(start_time, end_time)
       THEN /\ call' = [op |-> "set_roi", args |-> <<start_time, end_time>>,
                        pre |-> Config, outcome |-> "InvalidRange",
                        ret |-> <<>>]
            /\ UNCHANGED <<roi_start, roi_end, roi_ok>>
       ELSE /\ roi_start' = Some(start_time)
            /\ roi_end' = Some(end_time)
            /\ roi_ok' = TRUE
            /\ call' = [op |-> "set_roi", args |-> <<start_time, end_time>>,
                        pre |-> Config, outcome |-> "ok", ret |-> <<>>]
    /\ UNCHANGED sampling_rate
    /\ UNCHANGED outside

-----------------------------------------------------------------------------
(* extract_roi *)

\* the guard shared by extract_roi and analyze_roi
RoiUnset(cfg) == cfg.rs = None \/ cfg.re = None

\* int(time * sampling_rate)
SampleIndex(time, fs) == TruncDiv(time * fs, TimeDen)

\* extract_roi past its guard: the returned sub-sequence
RoiSlice(cfg, signal) ==
    LET start_idx == Max2(0, SampleIndex(cfg.rs[1], cfg.fs))
        end_idx == Min2(Len(signal), SampleIndex(cfg.re[1], cfg.fs))
    IN  PySlice(signal, start_idx, end_idx)

ExtractRoi(signal) ==
    /\ call' = IF RoiUnset(Config)
               THEN [op |-> "extract_roi", args |-> <<signal>>,
                     pre |-> Config, outcome |-> "NoRoiConfigured",
                     ret |-> <<>>]
               ELSE [op |-> "extract_roi", args |-> <<signal>>,
                     pre |-> Config, outcome |-> "ok",
                     ret |-> RoiSlice(Config, signal)]
    /\ UNCHANGED <<sampling_rate, roi_start, roi_end, roi_ok>>
    /\ UNCHANGED outside

-----------------------------------------------------------------------------
(* Sums and statistics over integer samples *)

RECURSIVE SumTo(_, _)
SumTo(s, n) == IF n = 0 THEN 0 ELSE s[n] + SumTo(s, n - 1)

SumSeq(s) == SumTo(s, Len(s))

RECURSIVE SumSquaresTo(_, _)
SumSquaresTo(s, n) ==
    IF n = 0 THEN 0 ELSE s[n] * s[n] + SumSquaresTo(s, n - 1)

SeqMax(s) == CHOOSE m \in {s[i] : i \in DOMAIN s} :
                 \A i \in DOMAIN s : s[i] <= m
SeqMin(s) == CHOOSE m \in {s[i] : i \in DOMAIN s} :
                 \A i \in DOMAIN s : m <= s[i]

\* np.diff(x)
RECURSIVE DiffFrom(_, _)
DiffFrom(x, i) ==
    IF i >= Len(x) THEN <<>> ELSE <<x[i + 1] - x[i]>> \o DiffFrom(x, i + 1)

Diff(x) == DiffFrom(x, 1)

\* N^2 * np.var(x): N * sum(x^2) - sum(x)^2
VarNum(x) == Len(x) * SumSquaresTo(x, Len(x)) - SumSeq(x) * SumSeq(x)

RECURSIVE Deviations(_, _, _)
Deviations(x, total, i) ==
    IF i > Len(x) THEN <<>>
    ELSE <<Len(x) * x[i] - total>> \o Deviations(x, total, i + 1)

\* the sign of c - np.mean(x) for a segment x whose every sample is c.  The
\* mean is a rounded quotient of a rounded sum: it is c itself when c is an
\* integer, and need not be otherwise (the mean of three samples 0.1 is
\* 0.10000000000000002).  The constant segments of the model stand for
\* every constant segment, so the sign is left open.
Residues == {0 - 1, 0, 1}

\* zscore(x).  The result stands for the samples z[i] = dev[i] / sqrt(var)
\* when var > 0.  When var = 0 the deviation s is below 1e-12 and the code
\* divides by 1.0 instead: every z[i] is the same c - np.mean(x), a
\* residue of rounding of sign r, and dev[i] = r stands for it.
Zscore(x, r) ==
    [dev |-> IF VarNum(x) = 0 THEN [i \in DOMAIN x |-> r]
             ELSE Deviations(x, SumSeq(x), 1),
     var |-> VarNum(x)]

\* the z-scores the code can compute for x: one, unless x is constant
Zscores(x) == {Zscore(x, r) : r \in Residues}

-----------------------------------------------------------------------------
(* scipy.signal.find_peaks(z, distance, prominence), as the detectors call *)
(* it.  Indices are 0-based as in the code; At0 reads a 0-based index.     *)

At0(x, i) == x[i + 1]

\* the end of the plateau that starts at i: first index ahead whose sample
\* differs from x[i], or the last index of x
RECURSIVE PlateauEnd(_, _, _)
PlateauEnd(x, i, ahead) ==
    IF ahead < Len(x) - 1 /\ At0(x, ahead) = At0(x, i)
    THEN PlateauEnd(x, i, ahead + 1)
    ELSE ahead

\* the local maxima at index i or later (midpoints of plateaus), ascending
RECURSIVE LocalMaxima(_, _)
LocalMaxima(x, i) ==
    IF i >= Len(x) - 1 THEN <<>>
    ELSE IF At0(x, i - 1) < At0(x, i)
         THEN LET ahead == PlateauEnd(x, i, i + 1)
              IN  IF At0(x, ahead) < At0(x, i)
                  THEN <<(i + ahead - 1) \div 2>> \o LocalMaxima(x, ahead + 1)
                  ELSE LocalMaxima(x, i + 1)
         ELSE LocalMaxima(x, i + 1)

\* the orders in which the distance rule can visit the positions (1-based,
\* into peaks): highest sample first.  The rule sorts the peaks' samples
\* with np.argsort, which promises no order among equal samples.
RECURSIVE VisitOrders(_, _, _)
VisitOrders(x, peaks, left) ==
    IF left = {} THEN {<<>>}
    ELSE UNION {{<<j>> \o rest :
                    rest \in VisitOrders(x, peaks, left \ {j})} :
                j \in {p \in left : \A q \in left :
                          At0(x, peaks[q]) <= At0(x, peaks[p])}}

\* the positions kept after visiting `order`: a kept peak removes every
\* peak closer than `distance` samples to it
RECURSIVE KeepByDistance(_, _, _, _)
KeepByDistance(peaks, distance, order, keep) ==
    IF order = <<>> THEN keep
    ELSE LET j == Head(order)
         IN  IF j \notin keep
             THEN KeepByDistance(peaks, distance, Tail(order), keep)
             ELSE KeepByDistance(peaks, distance, Tail(order),
                      {k \in keep : k = j \/
                           Abs(peaks[k] - peaks[j]) >= distance})

\* a subsequence of s: the entries at the positions in keep, in order
RECURSIVE Pick(_, _, _)
Pick(s, keep, i) ==
    IF i > Len(s) THEN <<>>
    ELSE IF i \in keep THEN <<s[i]>> \o Pick(s, keep, i + 1)
         ELSE Pick(s, keep, i + 1)

\* the lowest sample between peak p and the nearest higher sample in
\* direction dir (-1 left, 1 right), or the signal's edge
RECURSIVE BaseMin(_, _, _, _, _)
BaseMin(x, p, i, dir, low) ==
    IF i < 0 \/ i > Len(x) - 1 \/ At0(x, i) > At0(x, p) THEN low
    ELSE BaseMin(x, p, i + dir, dir, Min2(low, At0(x, i)))

\* the higher of the two bases of peak p
Base(x, p) ==
    Max2(BaseMin(x, p, p, 0 - 1, At0(x, p)), BaseMin(x, p, p, 1, At0(x, p)))

Prominence(x, p) == At0(x, p) - Base(x, p)

\* n/d >= m/e for n, m >= 0 and d, e > 0, compared by their continued
\* fractions (no product is formed)
RECURSIVE FracAtLeast(_, _, _, _)
FracAtLeast(n, d, m, e) ==
    IF n \div d # m \div e THEN n \div d > m \div e
    ELSE IF m % e = 0 THEN TRUE
    ELSE IF n % d = 0 THEN FALSE
    ELSE FracAtLeast(e, m % e, d, n % d)

\* a * a >= b * c for a, b, c >= 0
SquareAtLeast(a, b, c) ==
    IF b = 0 \/ c = 0 THEN TRUE
    ELSE IF a = 0 THEN FALSE
    ELSE FracAtLeast(a, b, c, a)

\* a * a <= b * c for a, b, c >= 0
SquareAtMost(a, b, c) ==
    IF a = 0 THEN TRUE
    ELSE IF b = 0 \/ c = 0 THEN FALSE
    ELSE FracAtLeast(c, a, a, b)

\* what the test  prominence >= pn / pd  can give for a peak of z-scored
\* samples whose prominence is a / sqrt(b * c), where c = 0 when the
\* samples have no spread.  Without spread the z-scores are residues of
\* rounding, far below the threshold.  When the two sides are equal in
\* exact arithmetic the rounding of the z-scores decides.
Enough(a, b, c, pn, pd) ==
    IF c = 0 THEN {FALSE}
    ELSE {ok \in BOOLEAN :
            /\ ok => SquareAtLeast(pd * a, pn * pn * b, c)
            /\ ~ok => SquareAtMost(pd * a, pn * pn * b, c)}

\* what find_peaks(z, distance, prominence = pn / pd) can return on the
\* z-scores of samples carried by v: v[i] \div k is sample i in exact
\* arithmetic, in a scale where the spread of the samples is b * c, and
\* v[i] % k orders the samples that are equal in exact arithmetic and that
\* rounding may have told apart.  The steps are those of find_peaks: the
\* local maxima, the distance rule, the prominence test.
PeaksRounded(v, k, distance, pn, pd, b, c) ==
    LET maxima == LocalMaxima(v, 1)
        test == [i \in DOMAIN maxima |->
                    Enough((At0(v, maxima[i]) \div k)
                               - (Base(v, maxima[i]) \div k),
                           b, c, pn, pd)]
        sure == {i \in DOMAIN maxima : test[i] = {TRUE}}
        open == {i \in DOMAIN maxima : test[i] = BOOLEAN}
        keeps == {KeepByDistance(maxima, distance, order, DOMAIN maxima) :
                    order \in VisitOrders(v, maxima, DOMAIN maxima)}
    IN  IF maxima = <<>> THEN {<<>>}
        ELSE UNION {{Pick(maxima, (keep \cap sure) \cup some, 1) :
                        some \in SUBSET (keep \cap open)} :
                    keep \in keeps}

\* find_peaks past its argument check (distance >= 1), on a z-score: equal
\* samples have equal z-scores
FindPeaks(z, distance, pn, pd) ==
    PeaksRounded(z.dev, 1, distance, pn, pd, 1, z.var)

-----------------------------------------------------------------------------
(* Float results *)

NaN == <<0, 0>>            \* the float nan (a mean of no values)
Unknown == <<0, 0, 0>>     \* a float computed from samples the model does
                           \* not carry (the output of a scipy filter)

\* the integer part of the square root of n >= 0
RECURSIVE ISqrt(_)
ISqrt(n) ==
    IF n < 2 THEN n
    ELSE LET s == 2 * ISqrt(n \div 4)
         IN  IF (s + 1) * (s + 1) <= n THEN s + 1 ELSE s

IsSquare(n) == ISqrt(n) * ISqrt(n) = n

\* the square root of the fraction q >= 0: a fraction when it is rational,
\* and else <<num, den, 2>>, standing for (num/den)^(1/2)
Root(q) ==
    IF IsSquare(q[1]) /\ IsSquare(q[2])
    THEN <<ISqrt(q[1]), ISqrt(q[2])>>
    ELSE <<q[1], q[2], 2>>

\* np.mean(v / d) and np.std(v / d) for integers v and a divisor d > 0
MeanOver(v, d) == Frac(SumSeq(v), Len(v) * d)
StdOver(v, d) == Root(Frac(VarNum(v), Len(v) * Len(v) * d * d))

-----------------------------------------------------------------------------
(* Metrics *)

\* compute_hr averaging over the number of peaks, not of intervals
ComputeHrOverPeaks(peak_indices, fs) ==
    IF Len(peak_indices) < 2 THEN <<None, None, None>>
    ELSE LET rr == Diff(peak_indices)
             mean == Frac(SumSeq(rr), Len(peak_indices) * fs)
             hr == IF mean[1] > 0 THEN Frac(60 * mean[2], mean[1]) ELSE None
         IN  <<hr, mean, StdOver(rr, fs)>>

\* compute_hr: <<hr_bpm, rr_mean_s, rr_sd_s>>
compute_hr(peak_indices, fs) ==
    IF Len(peak_indices) < 2 THEN <<None, None, None>>
    ELSE LET rr == Diff(peak_indices)       \* times fs
             mean == MeanOver(rr, fs)
             hr == IF mean[1] > 0 THEN Frac(60 * mean[2], mean[1]) ELSE None
         IN  <<hr, mean, StdOver(rr, fs)>>

\* the cursor of map_ptt after its while loop, for the beat r
RECURSIVE Advance(_, _, _)
Advance(ppg_idx, j, r) ==
    IF j < Len(ppg_idx) /\ At0(ppg_idx, j) < r
    THEN Advance(ppg_idx, j + 1, r)
    ELSE j

\* 0.0 < ptt_s < 1.5 for ptt_s = d / fs
InPttWindow(d, fs) == 0 < d /\ 2 * d < 3 * fs

\* the for loop of map_ptt from beat i (1-based) with the cursor at j: the
\* accepted sample differences ppg_idx[j] - r (ptt_s times fs)
RECURSIVE PttSweep(_, _, _, _, _)
PttSweep(r_idx, ppg_idx, fs, i, j) ==
    IF i > Len(r_idx) THEN <<>>
    ELSE LET r == r_idx[i]
             j2 == Advance(ppg_idx, j, r)
             rest == PttSweep(r_idx, ppg_idx, fs, i + 1, j2)
         IN  IF j2 < Len(ppg_idx) /\ InPttWindow(At0(ppg_idx, j2) - r, fs)
             THEN <<At0(ppg_idx, j2) - r>> \o rest
             ELSE rest

\* map_ptt, as sample differences: the returned array is these over fs
PttDiffs(r_idx, ppg_idx, fs) ==
    IF Len(r_idx) = 0 \/ Len(ppg_idx) = 0 THEN <<>>
    ELSE PttSweep(r_idx, ppg_idx, fs, 1, 0)

map_ptt(r_idx, ppg_idx, fs) ==
    LET d == PttDiffs(r_idx, ppg_idx, fs)
    IN  [i \in DOMAIN d |-> Frac(d[i], fs)]

\* np.correlate(a, v, mode='full')[i] for the deviations a, v of two
\* z-scored segments, up to the positive factor 1/(s_a * s_v):
\* the sum of a[n + k] * v[n] at lag k = i - (len(v) - 1)
\* (the sums and the array are built by halves, which keeps the depth of
\* the evaluation logarithmic in the length)
RECURSIVE LagSum(_, _, _, _, _)
LagSum(a, v, k, lo, hi) ==
    IF lo > hi THEN 0
    ELSE IF lo = hi
    THEN (IF lo + k >= 1 /\ lo + k <= Len(a) THEN a[lo + k] * v[lo] ELSE 0)
    ELSE LagSum(a, v, k, lo, (lo + hi) \div 2)
         + LagSum(a, v, k, (lo + hi) \div 2 + 1, hi)

CorrAt(a, v, i) == LagSum(a, v, i - (Len(v) - 1), 1, Len(v))

\* the entries i..j (0-based) of the correlation
RECURSIVE CorrelateFrom(_, _, _, _)
CorrelateFrom(a, v, i, j) ==
    IF i > j THEN <<>>
    ELSE IF i = j THEN <<CorrAt(a, v, i)>>
    ELSE CorrelateFrom(a, v, i, (i + j) \div 2)
         \o CorrelateFrom(a, v, (i + j) \div 2 + 1, j)

Correlate(a, v) == CorrelateFrom(a, v, 0, Len(a) + Len(v) - 2)

\* np.argmax: the first index of the largest entry of c; here the 1-based
\* index of the first largest entry among c[i..j]
RECURSIVE ArgMaxFrom(_, _, _)
ArgMaxFrom(c, i, j) ==
    IF i >= j THEN i
    ELSE LET l == ArgMaxFrom(c, i, (i + j) \div 2)
             r == ArgMaxFrom(c, (i + j) \div 2 + 1, j)
         IN  IF c[r] > c[l] THEN r ELSE l

ArgMax(c) == ArgMaxFrom(c, 1, Len(c)) - 1

\* the indices (0-based) of the entries of c that equal its largest
MaxEntries(c) ==
    {i - 1 : i \in {k \in DOMAIN c : \A j \in DOMAIN c : c[j] <= c[k]}}

\* the indices np.argmax can return on the correlation of the z-scores
\* x0 and y0.  The code correlates doubles.  When every entry is 0.0 (a
\* segment is constant and its mean exact) np.argmax returns the first.
\* When both segments are constant every entry is a sum of equal products
\* of the two residues, equal entries are equal as doubles and np.argmax
\* returns the first of the largest.  Otherwise z-scores are rounded
\* quotients, and entries that are equal in exact arithmetic can differ in
\* their last bits: any of these can be the largest one.
ArgMaxRounded(x0, y0, corr) ==
    IF \/ x0.var = 0 /\ y0.var = 0
       \/ \A i \in DOMAIN corr : corr[i] = 0
    THEN {ArgMax(corr)}
    ELSE MaxEntries(corr)

\* delay_by_xcorr correlating x0 against y0
XcorrLagSwapped(x, y) ==
    UNION {LET corr == Correlate(x0.dev, y0.dev)
           IN  {i - (Len(x0.dev) - 1) : i \in ArgMaxRounded(x0, y0, corr)} :
           x0 \in Zscores(x), y0 \in Zscores(y)}

\* the lags, in samples, that delay_by_xcorr can compute for non-empty x
\* and y: one lag unless the largest correlation is attained twice or a
\* segment is constant
XcorrLag(x, y) ==
    UNION {LET corr == Correlate(y0.dev, x0.dev)
           IN  {i - (Len(x0.dev) - 1) : i \in ArgMaxRounded(x0, y0, corr)} :
           x0 \in Zscores(x), y0 \in Zscores(y)}

\* the values delay_by_xcorr can return
delay_by_xcorr(x, y, fs) == {Frac(lag, fs) : lag \in XcorrLag(x, y)}

RECURSIVE SumAbsTo(_, _)
SumAbsTo(s, n) == IF n = 0 THEN 0 ELSE Abs(s[n]) + SumAbsTo(s, n - 1)

\* compute_sqi on a non-empty segment of integers.  snr_like is the
\* quotient var / (mad + 1e-9), carried as its two parts.
compute_sqi(x) ==
    LET hi == SeqMax(x)
        lo == SeqMin(x)
        rng == hi - lo             \* + 1e-9
        sat == {i \in DOMAIN x :
                   100 * (hi - x[i]) <= rng \/ 100 * (x[i] - lo) <= rng}
        d == Diff(x)
        flat == {i \in DOMAIN d : d[i] = 0}
    IN  [saturation |-> Frac(Cardinality(sat), Len(x)),
         flatness |-> IF Len(d) = 0 THEN NaN
                      ELSE Frac(Cardinality(flat), Len(d)),
         snr_like |-> [var |-> Frac(VarNum(x), Len(x) * Len(x)),
                       mad |-> IF Len(d) = 0 THEN NaN
                               ELSE Frac(SumAbsTo(d, Len(d)), Len(d))]]

-----------------------------------------------------------------------------
(* Signal conditioning.  A segment is the ROI's samples x together with    *)
(* the scipy transforms applied to them since, oldest first: <<>> for the  *)
(* samples as extracted, <<"detrend", 0, 0>> for signal.detrend and        *)
(* <<"bandpass", low, high>> (cutoffs in tenths of a Hz) for butter and    *)
(* filtfilt.  x stays the samples as extracted: the detectors work out    *)
(* the peaks of a detrended segment from them, and the floats computed    *)
(* from a transformed segment (delay, SQI) are carried as Unknown.        *)

PadLen == 27         \* filtfilt's default padlen, 3 * (2 * order + 1)

Raw(x) == [x |-> x, via |-> <<>>]
IsRaw(seg) == seg.via = <<>>

\* scipy.signal.detrend reshapes to (N, -1) and fails when N = 0
DetrendFails(seg) == Len(seg.x) = 0
Detrend(seg) == [seg EXCEPT !.via = @ \o <<<<"detrend", 0, 0>>>>]

\* butter needs 0 < low/nyq and high/nyq < 1 (nyq = fs/2); filtfilt needs
\* more than padlen samples
BandpassFails(seg, low, high, fs) ==
    \/ ~(0 < low /\ 2 * high < 10 * fs)
    \/ Len(seg.x) <= PadLen
Bandpass(seg, low, high) ==
    [seg EXCEPT !.via = @ \o <<<<"bandpass", low, high>>>>]

EcgLow == 50         \* 5.0 Hz
EcgHigh == 150       \* 15.0 Hz
PpgLow == 5          \* 0.5 Hz
PpgHigh == 50        \* 5.0 Hz

\* a selector that band-passes the ECG segment in "ppg_only" too
FiltersEcgAlsoPpgOnly(filt_mode) ==
    filt_mode = "default" \/ filt_mode = "ppg_ecg" \/ filt_mode = "ppg_only"

\* which of the two segments analyze_roi band-passes in filt_mode
FiltersEcg(filt_mode) == filt_mode = "default" \/ filt_mode = "ppg_ecg"
FiltersPpg(filt_mode) ==
    filt_mode = "default" \/ filt_mode = "ppg_ecg" \/ filt_mode = "ppg_only"

\* analyze_roi from the ROI extraction to the end of the filter selection:
\* the two conditioned segments, or the step that raised
Condition(cfg, ppg, ecg, do_detrend, filt_mode) ==
    LET ppg_roi == Raw(RoiSlice(cfg, ppg))
        ecg_roi == Raw(RoiSlice(cfg, ecg))
        ppg_d == IF do_detrend THEN Detrend(ppg_roi) ELSE ppg_roi
        ecg_d == IF do_detrend THEN Detrend(ecg_roi) ELSE ecg_roi
        ecg_f == IF FiltersEcg(filt_mode)
                 THEN Bandpass(ecg_d, EcgLow, EcgHigh) ELSE ecg_d
        ppg_f == IF FiltersPpg(filt_mode)
                 THEN Bandpass(ppg_d, PpgLow, PpgHigh) ELSE ppg_d
        at == IF do_detrend /\ DetrendFails(ppg_roi) THEN "detrend_ppg"
              ELSE IF do_detrend /\ DetrendFails(ecg_roi) THEN "detrend_ecg"
              ELSE IF FiltersEcg(filt_mode)
                      /\ BandpassFails(ecg_d, EcgLow, EcgHigh, cfg.fs)
                   THEN "bandpass_ecg"
              ELSE IF FiltersPpg(filt_mode)
                      /\ BandpassFails(ppg_d, PpgLow, PpgHigh, cfg.fs)
                   THEN "bandpass_ppg"
              ELSE ""
    IN  [at |-> at, ppg_roi |-> ppg_d, ecg_roi |-> ecg_d,
         ppg_f |-> ppg_f, ecg_f |-> ecg_f]

-----------------------------------------------------------------------------
(* Peak detection *)

\* int(0.25 * fs) and int(0.3 * fs)
EcgDistance(fs) == fs \div 4
PpgDistance(fs) == (3 * fs) \div 10

\* find_peaks rejects a distance below 1
DistanceRejected(distance) == distance < 1

\* ascending index sequences of a segment of n samples that a peak search
\* with this distance can return: interior indices, no two adjacent, no two
\* closer than distance
RECURSIVE PeakTrains(_, _, _)
PeakTrains(from, n, gap) ==
    IF from > n - 2 THEN {<<>>}
    ELSE PeakTrains(from + 1, n, gap)
         \cup {<<from>> \o rest : rest \in PeakTrains(from + gap, n, gap)}

\* scipy.signal.detrend(x): x less its least-squares line.  The residuals
\* are carried exactly, times the positive integer n * Sxx(n), so that
\* their order, their peaks and their z-scores are the residuals' own.

\* the sum of the indices 0..n-1
SumIdx(n) == (n * (n - 1)) \div 2

\* n times the sum of the squared indices, less the square of their sum
Sxx(n) == (n * n * (n * n - 1)) \div 12

\* n times the sum of i * x[i], less the product of the two sums
Sxy(x) ==
    Len(x) * SumSeq([i \in DOMAIN x |-> (i - 1) * x[i]])
        - SumIdx(Len(x)) * SumSeq(x)

\* (x[i] - mean) - slope * (i - mean index), slope = Sxy / Sxx, times
\* n * Sxx(n)
Residuals(x) ==
    LET n == Len(x)
        total == SumSeq(x)
        sxx == Sxx(n)
        sxy == Sxy(x)
        idx == SumIdx(n)
    IN  [i \in DOMAIN x |->
            sxx * (n * x[i] - total) - sxy * (n * (i - 1) - idx)]

\* the variance of Residuals(x), over Sxx(n): n^2 var(x) Sxx - Sxy^2
ResidualSpread(x) == VarNum(x) * Sxx(Len(x)) - Sxy(x) * Sxy(x)

\* scipy's detrend subtracts a fitted line in doubles: residuals that are
\* equal in exact arithmetic can differ in their last bits.  A ranking
\* gives each sample its place (0 the lowest) among the samples equal to
\* it; equal places are equal doubles.  Built by halves.
RECURSIVE TieRanksFrom(_, _, _)
TieRanksFrom(e, lo, hi) ==
    IF lo > hi THEN {<<>>}
    ELSE IF lo = hi
    THEN {<<r>> : r \in 0..(Cardinality({j \in DOMAIN e : e[j] = e[lo]}) - 1)}
    ELSE {a \o b : a \in TieRanksFrom(e, lo, (lo + hi) \div 2),
                   b \in TieRanksFrom(e, (lo + hi) \div 2 + 1, hi)}

TieRanks(e) == TieRanksFrom(e, 1, Len(e))

\* what find_peaks(zscore(detrend(x)), distance, prominence = pn / pd) can
\* return.  When x lies on a line the rounded residuals are below 1e-12,
\* their z-scores are the residuals themselves and none is prominent.
\* Else the z-score is the residual over the root of
\* Sxx(n) * ResidualSpread(x), in the scale of Residuals.
DetrendedPeaks(x, distance, pn, pd) ==
    LET e == Residuals(x)
        n == Len(x)
    IN  IF ResidualSpread(x) = 0 THEN {<<>>}
        ELSE UNION {PeaksRounded([i \in DOMAIN e |-> n * e[i] + rank[i]],
                                 n, distance, pn, pd,
                                 Sxx(n), ResidualSpread(x)) :
                    rank \in TieRanks(e)}

\* what a detector can return on a segment.  As extracted, or detrended:
\* the peaks of its samples.  A segment of zeros stays one under detrend
\* and filtfilt (both are linear) and has no peak.  The samples after a
\* band-pass are not computed: any train of interior indices no two of
\* which are adjacent or closer than distance.
DetectorOutputs(seg, distance, pn, pd) ==
    IF IsRaw(seg)
    THEN UNION {FindPeaks(z, distance, pn, pd) : z \in Zscores(seg.x)}
    ELSE IF \A i \in DOMAIN seg.x : seg.x[i] = 0 THEN {<<>>}
    ELSE IF seg.via = <<<<"detrend", 0, 0>>>>
    THEN DetrendedPeaks(seg.x, distance, pn, pd)
    ELSE PeakTrains(1, Len(seg.x), Max2(distance, 2))

-----------------------------------------------------------------------------
(* analyze_roi *)

\* an align_signals that cuts only its second argument
AlignCutsSecondOnly(ppg, ecg) ==
    LET min_len == Min2(Len(ppg), Len(ecg))
    IN  <<ppg, SubSeq(ecg, 1, min_len)>>

\* align_signals: both cut to the shorter length
align_signals(ppg, ecg) ==
    LET min_len == Min2(Len(ppg), Len(ecg))
    IN  <<SubSeq(ppg, 1, min_len), SubSeq(ecg, 1, min_len)>>

\* np.correlate and np.argmax fail on an empty segment
XcorrFails(x, y) == Len(x) = 0 \/ Len(y) = 0

\* np.max fails on an empty segment
SqiFails(x) == Len(x) = 0

UnknownSqi == [saturation |-> Unknown, flatness |-> Unknown,
               snr_like |-> Unknown]

\* analyze_roi from the metrics on, given the two detectors' outputs: the
\* ways it can end, each the ROIResult or the step that raised
Measure(cfg, t, cond, r_idx, ppg_pk) ==
    LET hr == compute_hr(r_idx, cfg.fs)
        ptt_arr == PttDiffs(r_idx, ppg_pk, cfg.fs)    \* times fs
        cut == align_signals(cond.ppg_f.x, cond.ecg_f.x)
        ppg_cut == cut[1]
        ecg_cut == cut[2]
        exact == IsRaw(cond.ppg_f) /\ IsRaw(cond.ecg_f)
        at == IF XcorrFails(ecg_cut, ppg_cut) THEN "xcorr"
              ELSE IF SqiFails(cond.ppg_f.x) THEN "sqi"
              ELSE ""
        delays == IF at # "" THEN {None}
                  ELSE IF exact THEN delay_by_xcorr(ecg_cut, ppg_cut, cfg.fs)
                  ELSE {Unknown}
    IN  {[at |-> at,
         result |->
           IF at # "" THEN <<>>
           ELSE [start_s |-> cfg.rs[1],
                 end_s |-> cfg.re[1],
                 n_samples |-> Len(RoiSlice(cfg, t)),
                 fs |-> cfg.fs,
                 hr_bpm |-> hr[1],
                 rr_mean_s |-> hr[2],
                 rr_sd_s |-> hr[3],
                 ptt_mean_s |-> IF Len(ptt_arr) > 0
                                THEN MeanOver(ptt_arr, cfg.fs) ELSE None,
                 ptt_sd_s |-> IF Len(ptt_arr) > 0
                              THEN StdOver(ptt_arr, cfg.fs) ELSE None,
                 delay_xcorr_s |-> delay,
                 sqi |-> IF IsRaw(cond.ppg_f) THEN compute_sqi(cond.ppg_f.x)
                         ELSE UnknownSqi]] :
         delay \in delays}

\* the record of one analyze_roi call
AnalyzeCall(args, outcome, at, cond, peaks, ret) ==
    [op |-> "analyze_roi", args |-> args, pre |-> Config,
     outcome |-> outcome, at |-> at, cond |-> cond, peaks |-> peaks,
     ret |-> ret]

\* analyze_roi on an engine configured as cfg: how the call can end
AnalyzeOutcomes(cfg, t, ppg, ecg, do_detrend, filt_mode) ==
    LET cond == Condition(cfg, ppg, ecg, do_detrend, filt_mode)
        fails(at, c) == {[outcome |-> "LibraryError", at |-> at, cond |-> c,
                          peaks |-> <<>>, ret |-> <<>>]}
    IN  IF RoiUnset(cfg)
        THEN {[outcome |-> "NoRoiConfigured", at |-> "guard", cond |-> <<>>,
               peaks |-> <<>>, ret |-> <<>>]}
        ELSE IF cond.at # "" THEN fails(cond.at, cond)
        ELSE IF DistanceRejected(EcgDistance(cfg.fs))
        THEN fails("find_peaks_ecg", cond)
        ELSE IF DistanceRejected(PpgDistance(cfg.fs))
        THEN fails("find_peaks_ppg", cond)
        ELSE UNION {
               {[outcome |-> IF m.at = "" THEN "ok" ELSE "LibraryError",
                 at |-> m.at, cond |-> cond,
                 peaks |-> [r_idx |-> r_idx, ppg_pk |-> ppg_pk],
                 ret |-> m.result] :
                  m \in Measure(cfg, t, cond, r_idx, ppg_pk)} :
                r_idx \in DetectorOutputs(cond.ecg_f, EcgDistance(cfg.fs),
                                          1, 1),
                ppg_pk \in DetectorOutputs(cond.ppg_f, PpgDistance(cfg.fs),
                                           3, 10)}

\* analyze_roi on the engine as it is: the call's record
AnalyzeRoiReturns(t, ppg, ecg, do_detrend, filt_mode) ==
    /\ \E o \in AnalyzeOutcomes(Config, t, ppg, ecg, do_detrend, filt_mode) :
           call' = AnalyzeCall([t |-> t, ppg |-> ppg, ecg |-> ecg,
                                do_detrend |-> do_detrend,
                                filt_mode |-> filt_mode],
                               o.outcome, o.at, o.cond, o.peaks, o.ret)
    /\ UNCHANGED <<sampling_rate, roi_start, roi_end, roi_ok>>

\* analyze_roi whose result, if any, the caller uses and drops
AnalyzeRoi(t, ppg, ecg, do_detrend, filt_mode) ==
    /\ AnalyzeRoiReturns(t, ppg, ecg, do_detrend, filt_mode)
    /\ UNCHANGED outside

\* a caller that keeps the ROIResult a call returns
Keeps == [cfg |-> Config, t |-> call'.args.t, result |-> call'.ret]

\* the first analyze_roi whose ROIResult the caller keeps
AnalyzeRoiKept(t, ppg, ecg, do_detrend, filt_mode) ==
    /\ held = None
    /\ AnalyzeRoiReturns(t, ppg, ecg, do_detrend, filt_mode)
    /\ call'.outcome = "ok"
    /\ held' = Keeps
    /\ UNCHANGED window

-----------------------------------------------------------------------------
(* Inputs *)

Modes == {"default", "ppg_ecg", "ppg_only", "off", "other"}

\* the time array of a recording of n samples (sample numbers)
TimeArray(n) == [i \in 1..n |-> i - 1]

-----------------------------------------------------------------------------
(* Inputs of the calls *)

MaxIdx == 6          \* peak indices range over 0..MaxIdx
LongLen == 30        \* length of the recordings long enough to filter

\* ascending sequence of the members of a set of integers
RECURSIVE Ascending(_)
Ascending(S) ==
    IF S = {} THEN <<>>
    ELSE LET m == CHOOSE a \in S : \A b \in S : a <= b
         IN  <<m>> \o Ascending(S \ {m})

\* strictly ascending index sequences, as a peak detector returns them
PeakSets == {Ascending(S) : S \in SUBSET (0..MaxIdx)}

\* recordings long enough for filtfilt: a flat line and a pulse train
LongSignals == {[i \in 1..LongLen |-> 0],
                [i \in 1..LongLen |-> IF i % 8 = 2 THEN 1 ELSE 0]}

\* recordings handed to analyze_roi
Recordings == Signals \cup LongSignals

\* the recordings of the engine's protocol runs
FewRecordings == {<<>>, <<0, 1, 0>>}

\* the configurations the engine can be in: any rate, and no ROI or a ROI
\* that set_roi accepted
InitConfigured ==
    /\ held = None
    /\ WindowInit
    /\ sampling_rate \in FsSet
    /\ \/ roi_start = None /\ roi_end = None /\ roi_ok = FALSE
       \/ \E s \in Times, e \in Times :
              /\ ~RoiRejected(s, e)
              /\ roi_start = Some(s) /\ roi_end = Some(e) /\ roi_ok = TRUE

Pending(fn, args) == [op |-> "pending", fn |-> fn, args |-> args]

-----------------------------------------------------------------------------
(* The main window: loading a recording and the two plots' regions.  A     *)
(* region change runs the callback of its plot; the callback's setRegion   *)
(* on the other plot emits sigRegionChanged there, which runs the other    *)
(* plot's callback inside the first (Qt delivers the signal at once).      *)
(* stack holds the handlers that have not returned, innermost last: the    *)
(* region callbacks, and save_plots_png while its processEvents call       *)
(* delivers the events that wait.                                          *)

MaxEmits == 2        \* sigRegionChanged emissions of one setRegion: 1..MaxEmits
MaxSaves == 1        \* save_plots_png handlers inside one another

engine == <<sampling_rate, roi_start, roi_end, roi_ok, call>>

\* what getRegion can report: lo <= hi
Regions == {r \in (0..MaxTime) \X (0..MaxTime) : r[1] <= r[2]}

Top == stack[Len(stack)]
Pop == SubSeq(stack, 1, Len(stack) - 1)
ReplaceTop(f) == [stack EXCEPT ![Len(stack)] = f]

\* an event loop is running and delivers the user's events: the
\* application's, or the processEvents call of a save_plots_png
Idle == IF stack = <<>> THEN TRUE ELSE Top.pc = "events"

\* load_dummy, load_mat, load_csv: the recording, then _set_fs and the status
LoadData(rec, fs) ==
    /\ Idle
    /\ data' = rec
    /\ sampling_rate' = fs
    /\ call' = [op |-> "set_sampling_rate", args |-> <<fs>>, pre |-> Config,
                outcome |-> "ok", ret |-> <<>>]
    /\ label_status' = <<"loaded", fs, Len(rec.t)>>
    /\ UNCHANGED <<roi_start, roi_end, roi_ok, held, region_ppg, region_ecg,
                   region_sync_lock, stack, event>>

OtherPlot(plot) == IF plot = "ppg" THEN "ecg" ELSE "ppg"
RegionOf(plot) == IF plot = "ppg" THEN region_ppg ELSE region_ecg

\* a callback entered with region: on_change(self.region.getRegion())
Entered(plot, region) ==
    [fn |-> plot, pc |-> "lock", region |-> region, left |-> 0,
     raised |-> FALSE]

\* a region callback, as against a save_plots_png
IsCallback(frame) == frame.fn \in {"ppg", "ecg"}

\* the history, once the handlers left are rest
Outcome(ev, rest, raised) ==
    IF rest # <<>> /\ IsCallback(rest[Len(rest)]) THEN ev
    ELSE [ev EXCEPT !.done = IF raised THEN "raised" ELSE "returned"]

\* the user moves the region of a plot: sigRegionChanged runs its callback
RegionMoved(plot, rgn) ==
    /\ Idle
    /\ RegionOf(plot) # rgn
    /\ IF plot = "ppg"
       THEN region_ppg' = rgn /\ UNCHANGED region_ecg
       ELSE region_ecg' = rgn /\ UNCHANGED region_ppg
    /\ stack' = stack \o <<Entered(plot, rgn)>>
    /\ event' = [origin |-> plot, region |-> rgn, calls |-> 0,
                 nested |-> 0, done |-> "running"]
    /\ UNCHANGED <<engine, held, data, region_sync_lock, label_status>>

\* a callback that does not look at the lock
LockIgnored ==
    /\ stack # <<>>
    /\ Top.pc = "lock"
    /\ region_sync_lock' = TRUE
    /\ stack' = ReplaceTop([Top EXCEPT !.pc = "copy"])
    /\ UNCHANGED <<engine, held, data, region_ppg, region_ecg, label_status,
                   event>>

\* if self._region_sync_lock: return; self._region_sync_lock = True
LockChecked ==
    /\ stack # <<>>
    /\ Top.pc = "lock"
    /\ IF region_sync_lock
       THEN /\ stack' = Pop
            /\ event' = Outcome([event EXCEPT !.nested = @ + 1], Pop, FALSE)
            /\ UNCHANGED region_sync_lock
       ELSE /\ region_sync_lock' = TRUE
            /\ stack' = ReplaceTop([Top EXCEPT !.pc = "copy"])
            /\ UNCHANGED event
    /\ UNCHANGED <<engine, held, data, region_ppg, region_ecg, label_status>>

\* the other plot's setRegion(region): it raises, or finds the region
\* already there, or stores it and emits sigRegionChanged
RegionCopied ==
    /\ stack # <<>>
    /\ Top.pc = "copy"
    /\ event' = [event EXCEPT !.calls = @ + 1]
    /\ \/ /\ stack' = ReplaceTop([Top EXCEPT !.pc = "finally",
                                             !.raised = TRUE])
          /\ UNCHANGED <<region_ppg, region_ecg>>
       \/ /\ RegionOf(OtherPlot(Top.fn)) = Top.region
          /\ stack' = ReplaceTop([Top EXCEPT !.pc = "status"])
          /\ UNCHANGED <<region_ppg, region_ecg>>
       \/ /\ RegionOf(OtherPlot(Top.fn)) # Top.region
          /\ IF Top.fn = "ppg"
             THEN region_ecg' = Top.region /\ UNCHANGED region_ppg
             ELSE region_ppg' = Top.region /\ UNCHANGED region_ecg
          /\ \E n \in 1..MaxEmits :
                 stack' = ReplaceTop([Top EXCEPT !.pc = "emit", !.left = n])
    /\ UNCHANGED <<engine, held, data, region_sync_lock, label_status>>

\* one emission of the other plot's sigRegionChanged, or setRegion returns
SignalEmitted ==
    /\ stack # <<>>
    /\ Top.pc = "emit"
    /\ IF Top.left > 0
       THEN stack' = ReplaceTop([Top EXCEPT !.left = @ - 1])
                       \o <<Entered(OtherPlot(Top.fn),
                                    RegionOf(OtherPlot(Top.fn)))>>
       ELSE stack' = ReplaceTop([Top EXCEPT !.pc = "status"])
    /\ UNCHANGED <<engine, held, data, region_ppg, region_ecg,
                   region_sync_lock, label_status, event>>

\* _roi_changed(region): the status text when a recording is loaded
RoiChanged ==
    /\ stack # <<>>
    /\ Top.pc = "status"
    /\ \/ /\ stack' = ReplaceTop([Top EXCEPT !.pc = "finally",
                                             !.raised = TRUE])
          /\ UNCHANGED label_status
       \/ /\ stack' = ReplaceTop([Top EXCEPT !.pc = "finally"])
          /\ label_status' = IF data = None THEN label_status
                             ELSE <<"roi", Top.region[1], Top.region[2]>>
    /\ UNCHANGED <<engine, held, data, region_ppg, region_ecg,
                   region_sync_lock, event>>

\* finally: self._region_sync_lock = False, and the callback is left
LockReleased ==
    /\ stack # <<>>
    /\ Top.pc = "finally"
    /\ region_sync_lock' = FALSE
    /\ stack' = Pop
    /\ event' = Outcome(event, Pop, Top.raised)
    /\ UNCHANGED <<engine, held, data, region_ppg, region_ecg, label_status>>

-----------------------------------------------------------------------------
(* The window's Analyze button *)

SpinMin == 10        \* spin_fs.setRange(10, 2000)

\* what the controls can hold when the button is clicked
SpinRates == {SpinMin, DefaultFs}
ComboModes == {"default", "ppg_only", "off"}

\* the recordings a window can have loaded
Loaded == {[t |-> TimeArray(Len(x)), ppg |-> x, ecg |-> x] :
              x \in FewRecordings \ {<<>>}}

\* the record of one click on Analyze: what was clicked, how the handler
\* ended, and whether it changed the analyzer's configuration (to cfg) and
\* the status text (to status)
Clicked(args, outcome, inner, cfg, status) ==
    [op |-> "analyze_clicked", args |-> args,
     configured |-> cfg # Config, status_set |-> status # label_status,
     outcome |-> outcome, inner |-> inner]

\* AnalyzeExportMixin.analyze_roi.  Outcomes: "warned" (a warning box, then
\* return), "raised" (an exception leaves the handler), "error_box" (the
\* critical box of the except clause, then return), "shown" (the result in
\* the status text).
AnalyzeClicked(spin_fs, filt_mode, do_detrend) ==
    LET args == [spin_fs |-> spin_fs, filt_mode |-> filt_mode,
                 do_detrend |-> do_detrend]
        start == region_ppg[1]
        end == region_ppg[2]
        cfg == [fs |-> spin_fs, rs |-> Some(start), re |-> Some(end)]
    IN  /\ Idle
        /\ IF data = None
           THEN /\ call' = Clicked(args, "warned", "no_data", Config,
                                label_status)
                /\ UNCHANGED <<sampling_rate, roi_start, roi_end, roi_ok,
                               label_status>>
           ELSE IF region_ppg = None
           THEN /\ call' = Clicked(args, "warned", "no_roi", Config,
                                label_status)
                /\ UNCHANGED <<sampling_rate, roi_start, roi_end, roi_ok,
                               label_status>>
           ELSE IF RoiRejected(start, end)
           THEN /\ sampling_rate' = spin_fs
                /\ call' = Clicked(args, "raised", "InvalidRange",
                                [Config EXCEPT !.fs = spin_fs],
                                label_status)
                /\ UNCHANGED <<roi_start, roi_end, roi_ok, label_status>>
           ELSE /\ sampling_rate' = spin_fs
                /\ roi_start' = Some(start)
                /\ roi_end' = Some(end)
                /\ roi_ok' = TRUE
                /\ \E o \in AnalyzeOutcomes(cfg, data.t, data.ppg, data.ecg,
                                           do_detrend, filt_mode) :
                       IF o.outcome = "ok"
                       THEN /\ call' = Clicked(args, "shown", o.outcome,
                                               cfg, <<"result", o.ret>>)
                            /\ label_status' = <<"result", o.ret>>
                       ELSE /\ call' = Clicked(args, "error_box", o.outcome,
                                               cfg, label_status)
                            /\ UNCHANGED label_status
        /\ UNCHANGED <<held, data, region_ppg, region_ecg, region_sync_lock,
                       stack, event>>

\* the file names the two save dialogs can return when one is chosen
PngPaths == {"plots.png"}
CsvPaths == {"roi_segment.csv"}

\* a save_plots_png inside its processEvents call
IsSaving(frame) == frame.fn = "save"
Saving(path) == [fn |-> "save", pc |-> "events", path |-> path]

\* save_plots_png up to its processEvents call: no file chosen and it
\* returns, or it starts to deliver the events that wait
SavePlotsPng(path) ==
    /\ Idle
    /\ Len(SelectSeq(stack, IsSaving)) < MaxSaves
    /\ stack' \in {stack, stack \o <<Saving(path)>>}
    /\ UNCHANGED <<engine, held, data, region_ppg, region_ecg,
                   region_sync_lock, label_status, event>>

\* save_plots_png from the return of processEvents: the two plots
\* exported and the status set, or an export raised (a critical box)
PlotsExported ==
    /\ stack # <<>>
    /\ Top.pc = "events"
    /\ label_status' \in {label_status, <<"plots_saved", Top.path>>}
    /\ stack' = Pop
    /\ UNCHANGED <<engine, held, data, region_ppg, region_ecg,
                   region_sync_lock, event>>

\* export_roi_csv: a warning when there is no recording, no ROI or fewer
\* than 2 samples in the ROI; else no file chosen, or the file written
\* and the status set, or to_csv raised (a critical box)
ExportRoiCsv(spin_fs, path) ==
    LET s_idx == Max2(0, SampleIndex(region_ppg[1], spin_fs))
        e_idx == Min2(Len(data.t), SampleIndex(region_ppg[2], spin_fs))
    IN  /\ Idle
        /\ IF data = None \/ region_ppg = None
           THEN UNCHANGED label_status
           ELSE IF e_idx - s_idx < 2
           THEN UNCHANGED label_status
           ELSE label_status' \in {label_status, <<"csv_saved", path>>}
        /\ UNCHANGED <<engine, held, data, region_ppg, region_ecg,
                       region_sync_lock, stack, event>>

\* what the user can do whenever an event loop is running, the Analyze
\* button apart, and the steps of the handlers that have not returned
NextWindow ==
    \/ \E rec \in Loaded, fs \in SpinRates : LoadData(rec, fs)
    \/ \E plot \in {"ppg", "ecg"}, rgn \in Regions : RegionMoved(plot, rgn)
    \/ LockChecked
    \/ RegionCopied
    \/ SignalEmitted
    \/ RoiChanged
    \/ LockReleased
    \/ \E path \in PngPaths : SavePlotsPng(path)
    \/ PlotsExported
    \/ \E spin_fs \in SpinRates, path \in CsvPaths :
          ExportRoiCsv(spin_fs, path)

-----------------------------------------------------------------------------
(* The window while the user loads recordings, moves the regions and saves *)

NextSync == NextWindow

SpecSync == Init /\ [][NextSync]_vars

-----------------------------------------------------------------------------
(* The window up to one click on Analyze, in whatever state the user has   *)
(* brought it to, and from the click to the return of the save_plots_png   *)
(* handlers the click was delivered in                                     *)

NextGui ==
    \/ call.op # "analyze_clicked" /\ NextWindow
    \/ /\ call.op # "analyze_clicked"
       /\ \E spin_fs \in SpinRates, filt_mode \in ComboModes,
             do_detrend \in BOOLEAN :
             AnalyzeClicked(spin_fs, filt_mode, do_detrend)
    \/ call.op = "analyze_clicked" /\ PlotsExported

SpecGui == Init /\ [][NextGui]_vars

-----------------------------------------------------------------------------
(* The engine's protocol: any sequence of calls on one engine *)

Next ==
    \/ \E fs \in FsSet : SetSamplingRate(fs)
    \/ \E s \in Times, e \in Times : SetRoi(s, e)
    \/ \E x \in Signals : ExtractRoi(x)
    \/ \E ppg \in FewRecordings, ecg \in FewRecordings,
          do_detrend \in BOOLEAN, filt_mode \in Modes :
          AnalyzeRoi(TimeArray(Len(ppg)), ppg, ecg, do_detrend, filt_mode)

Spec == Init /\ [][Next]_vars

-----------------------------------------------------------------------------
(* The engine's protocol with a caller that keeps the first ROIResult *)

NextKept ==
    \/ \E fs \in FsSet : SetSamplingRate(fs)
    \/ \E s \in 0..MaxTime, e \in 0..MaxTime : SetRoi(s, e)
    \/ \E ppg \in FewRecordings, ecg \in FewRecordings,
          do_detrend \in BOOLEAN :
          AnalyzeRoi(TimeArray(Len(ppg)), ppg, ecg, do_detrend, "off")
    \/ \E ppg \in FewRecordings, ecg \in FewRecordings,
          do_detrend \in BOOLEAN :
          AnalyzeRoiKept(TimeArray(Len(ppg)), ppg, ecg, do_detrend, "off")

SpecKept == Init /\ [][NextKept]_vars

-----------------------------------------------------------------------------
(* One analyze_roi call on every configuration and every input *)

InitAnalyze ==
    /\ InitConfigured
    /\ \E ppg \in Recordings, ecg \in Recordings,
          do_detrend \in BOOLEAN, filt_mode \in Modes :
          \E n \in {Len(ppg), Len(ecg)} :
              call = Pending("analyze_roi",
                             [t |-> TimeArray(n), ppg |-> ppg, ecg |-> ecg,
                              do_detrend |-> do_detrend,
                              filt_mode |-> filt_mode])

RunAnalyze ==
    /\ call.op = "pending"
    /\ AnalyzeRoi(call.args.t, call.args.ppg, call.args.ecg,
                  call.args.do_detrend, call.args.filt_mode)

SpecAnalyze == InitAnalyze /\ [][RunAnalyze]_vars

-----------------------------------------------------------------------------
(* One map_ptt call on every pair of peak sequences *)

InitPtt ==
    /\ InitConfigured
    /\ roi_start = None
    /\ \E r_idx \in PeakSets, ppg_idx \in PeakSets :
          call = Pending("map_ptt", [r_idx |-> r_idx, ppg_idx |-> ppg_idx])

RunMapPtt ==
    /\ call.op = "pending"
    /\ call' = [op |-> "map_ptt", args |-> call.args, pre |-> Config,
                outcome |-> "ok",
                ret |-> map_ptt(call.args.r_idx, call.args.ppg_idx,
                                sampling_rate)]
    /\ UNCHANGED <<sampling_rate, roi_start, roi_end, roi_ok>>
    /\ UNCHANGED outside

SpecPtt == InitPtt /\ [][RunMapPtt]_vars

-----------------------------------------------------------------------------
(* One compute_hr call on every index sequence *)

InitHr ==
    /\ InitConfigured
    /\ roi_start = None
    /\ \E peak_indices \in SeqsUpTo(0..MaxIdx, MaxLen) :
          call = Pending("compute_hr", [peak_indices |-> peak_indices])

RunComputeHr ==
    /\ call.op = "pending"
    /\ call' = [op |-> "compute_hr", args |-> call.args, pre |-> Config,
                outcome |-> "ok",
                ret |-> compute_hr(call.args.peak_indices, sampling_rate)]
    /\ UNCHANGED <<sampling_rate, roi_start, roi_end, roi_ok>>
    /\ UNCHANGED outside

SpecHr == InitHr /\ [][RunComputeHr]_vars

-----------------------------------------------------------------------------
(* align_signals on every pair of sequences, and again on what it returned *)

InitAlign ==
    /\ InitConfigured
    /\ roi_start = None
    /\ \E a \in Signals, b \in Signals :
          call = Pending("align_signals", [ppg |-> a, ecg |-> b])

RunAlign ==
    /\ call.op = "pending"
    /\ call' = [op |-> "align_signals", args |-> call.args, pre |-> Config,
                outcome |-> "ok", again |-> FALSE,
                ret |-> align_signals(call.args.ppg, call.args.ecg)]
    /\ UNCHANGED <<sampling_rate, roi_start, roi_end, roi_ok>>
    /\ UNCHANGED outside

RunAlignAgain ==
    /\ call.op = "align_signals"
    /\ ~call.again
    /\ call' = [op |-> "align_signals",
                args |-> [ppg |-> call.ret[1], ecg |-> call.ret[2]],
                pre |-> Config, outcome |-> "ok", again |-> TRUE,
                ret |-> align_signals(call.ret[1], call.ret[2])]
    /\ UNCHANGED <<sampling_rate, roi_start, roi_end, roi_ok>>
    /\ UNCHANGED outside

NextAlign == RunAlign \/ RunAlignAgain

SpecAlign == InitAlign /\ [][NextAlign]_vars

-----------------------------------------------------------------------------
(* One compute_sqi call on every segment *)

InitSqi ==
    /\ InitConfigured
    /\ roi_start = None
    /\ \E x \in SeqsUpTo(0..MaxIdx, MaxLen) :
          call = Pending("compute_sqi", [x |-> x])

RunSqi ==
    /\ call.op = "pending"
    /\ call' = [op |-> "compute_sqi", args |-> call.args, pre |-> Config,
                outcome |-> IF SqiFails(call.args.x) THEN "LibraryError"
                            ELSE "ok",
                ret |-> IF SqiFails(call.args.x) THEN <<>>
                        ELSE compute_sqi(call.args.x)]
    /\ UNCHANGED <<sampling_rate, roi_start, roi_end, roi_ok>>
    /\ UNCHANGED outside

SpecSqi == InitSqi /\ [][RunSqi]_vars

-----------------------------------------------------------------------------
(* Properties of the configuration calls *)

\* C1: a set_roi(start, end) call with end <= start, made with the ROI
\* unset or set, fails with InvalidRange and leaves roi_start, roi_end and
\* sampling_rate as they were before the call.
C1_InvalidRangeRejected ==
    (call.op = "set_roi" /\ call.args[2] <= call.args[1])
        => (call.outcome = "InvalidRange" /\ Config = call.pre)

\* a rejected set_roi(t, t) on an engine whose ROI was set before
C1_RejectedWithPriorRoi ==
    /\ call.op = "set_roi"
    /\ call.args[2] = call.args[1]
    /\ call.outcome = "InvalidRange"
    /\ call.pre.rs # None
    /\ roi_start = call.pre.rs

\* C2: extract_roi and analyze_roi fail with NoRoiConfigured exactly when
\* no set_roi call has succeeded so far (rejected calls do not count), so
\* never again once one has succeeded.
C2_NoRoiUntilFirstSuccess ==
    call.op \in {"extract_roi", "analyze_roi"}
        => ((call.outcome = "NoRoiConfigured") <=> ~roi_ok)

\* analyze_roi failing with NoRoiConfigured
C2_AnalyzeWithoutRoi ==
    /\ call.op = "analyze_roi"
    /\ call.outcome = "NoRoiConfigured"
    /\ ~roi_ok

\* the samples of signal at the indices i (0-based) with
\* max(0, floor(start * fs)) <= i < min(len, floor(end * fs))
ClampedWindow(cfg, signal) ==
    LET lo == Max2(0, (cfg.rs[1] * cfg.fs) \div TimeDen)
        hi == Min2(Len(signal), (cfg.re[1] * cfg.fs) \div TimeDen)
    IN  SubSeq(signal, lo + 1, hi)

\* C3: with a ROI configured, extract_roi does not fail and returns exactly
\* the samples at the indices max(0, round_down(start * fs)) <= i <
\* min(L, round_down(end * fs)), also for a ROI partly or wholly before
\* index 0 or past the end of the signal.
C3_ExtractRoiClampedWindow ==
    (call.op = "extract_roi" /\ ~RoiUnset(call.pre))
        => /\ call.outcome = "ok"
           /\ call.ret = ClampedWindow(call.pre, call.args[1])

\* C9: the ROI is wholly unset, or wholly set with roi_end > roi_start.
C9_RoiUnsetOrOrdered ==
    \/ roi_start = None /\ roi_end = None
    \/ /\ roi_start # None
       /\ roi_end # None
       /\ roi_end[1] > roi_start[1]

\* a ROI that survived a rejected set_roi call
C9_RoiKeptAfterRejection ==
    /\ call.op = "set_roi"
    /\ call.outcome = "InvalidRange"
    /\ call.args[2] < call.args[1]
    /\ roi_start # None
    /\ roi_end # None

\* C10: analyze_roi and extract_roi, failing or not, leave the
\* configuration unchanged; set_sampling_rate changes only sampling_rate;
\* a successful set_roi changes only roi_start and roi_end.
C10_ConfigChangedBySetterOnly ==
    /\ call.op \in {"extract_roi", "analyze_roi"} => Config = call.pre
    /\ call.op = "set_sampling_rate"
           => /\ sampling_rate = call.args[1]
              /\ roi_start = call.pre.rs
              /\ roi_end = call.pre.re
    /\ (call.op = "set_roi" /\ call.outcome = "ok")
           => /\ sampling_rate = call.pre.fs
              /\ roi_start = Some(call.args[1])
              /\ roi_end = Some(call.args[2])

\* set_sampling_rate changing the rate of an engine whose ROI is set
C10_RateChangedRoiKept ==
    /\ call.op = "set_sampling_rate"
    /\ call.pre.rs # None
    /\ call.pre.fs # sampling_rate
    /\ roi_start = call.pre.rs

-----------------------------------------------------------------------------
(* Properties of the metrics *)

\* for each beat of R from the i-th on, in order: the gap to the first
\* element of P strictly greater than it, over fs, when there is one and
\* the gap lies in the window (0, 1.5) seconds
RECURSIVE FirstLaterGaps(_, _, _, _)
FirstLaterGaps(R, P, fs, i) ==
    IF i > Len(R) THEN <<>>
    ELSE LET later == {j \in DOMAIN P : P[j] > R[i]}
             j == CHOOSE a \in later : \A b \in later : a <= b
             kept == /\ later # {}
                     /\ 0 < P[j] - R[i]
                     /\ 2 * (P[j] - R[i]) < 3 * fs
         IN  (IF kept THEN <<Frac(P[j] - R[i], fs)>> ELSE <<>>)
                 \o FirstLaterGaps(R, P, fs, i + 1)

\* C4: for strictly ascending R and P, map_ptt returns, in R order, exactly
\* the values (p - r)/fs where p is the first element of P strictly greater
\* than r, kept only when p exists and 0 < (p - r)/fs < 1.5.
C4_FirstStrictlyLaterPeak ==
    call.op = "map_ptt"
        => call.ret = FirstLaterGaps(call.args.r_idx, call.args.ppg_idx,
                                     call.pre.fs, 1)

\* the analyze_roi calls that reached the metrics: both detectors returned
DetectorsRan ==
    /\ call.op = "analyze_roi"
    /\ ~RoiUnset(call.pre)
    /\ call.at \in {"", "xcorr", "sqi"}

\* C5: analyze_roi with a ROI configured, on signals in which a detector
\* finds zero peaks, does not raise; its result has hr_bpm, rr_mean_s and
\* rr_sd_s absent when fewer than 2 R-peaks were found, ptt_mean_s and
\* ptt_sd_s absent when no pairing was accepted, and delay_xcorr_s and the
\* three sqi entries populated.
C5_ZeroPeaksNeverRaise ==
    (DetectorsRan
     /\ (call.peaks.r_idx = <<>> \/ call.peaks.ppg_pk = <<>>))
        => /\ call.outcome = "ok"
           /\ Len(call.peaks.r_idx) < 2
                  => /\ call.ret.hr_bpm = None
                     /\ call.ret.rr_mean_s = None
                     /\ call.ret.rr_sd_s = None
           /\ call.ret.ptt_mean_s = None
           /\ call.ret.ptt_sd_s = None
           /\ call.ret.delay_xcorr_s # None
           /\ DOMAIN call.ret.sqi = {"saturation", "flatness", "snr_like"}
           /\ \A k \in DOMAIN call.ret.sqi : call.ret.sqi[k] # None

\* the square of a float result: of a fraction, or of the root of one
SquareOf(r) ==
    IF Len(r) = 3 THEN <<r[1], r[2]>> ELSE Frac(r[1] * r[1], r[2] * r[2])

\* the sum of (m * d[i] - D)^2 over the entries of d
SumSquaredOffsets(d, m, D) ==
    SumSeq([i \in DOMAIN d |-> (m * d[i] - D) * (m * d[i] - D)])

\* C6: compute_hr on fewer than 2 indices returns (absent, absent, absent);
\* on at least 2 it returns rr_mean_s = the mean of the consecutive index
\* differences over fs (that is (last - first) / ((n - 1) * fs)), rr_sd_s =
\* their population standard deviation, and hr_bpm = 60 / rr_mean_s when
\* rr_mean_s > 0, absent otherwise; equally spaced peaks with spacing d
\* give d/fs, 60*fs/d and 0, as [0,128,256,384] at fs = 128 gives 1, 60, 0.
C6_ComputeHrValues ==
    /\ compute_hr(<<0, 128, 256, 384>>, 128) = <<<<60, 1>>, <<1, 1>>, <<0, 1>>>>
    /\ call.op = "compute_hr" =>
         LET p == call.args.peak_indices
             fs == call.pre.fs
             n == Len(p)
             m == n - 1
             d == [i \in 1..m |-> p[i + 1] - p[i]]
             hr == call.ret[1]
             mean == call.ret[2]
             sd == call.ret[3]
         IN  IF n < 2 THEN call.ret = <<None, None, None>>
             ELSE /\ mean[2] > 0
                  /\ mean[1] * m * fs = (p[n] - p[1]) * mean[2]
                  /\ SquareOf(sd)
                       = Frac(SumSquaredOffsets(d, m, p[n] - p[1]),
                              m * m * m * fs * fs)
                  /\ IF mean[1] > 0
                     THEN hr # None /\ hr[1] * mean[1] = 60 * hr[2] * mean[2]
                     ELSE hr = None
                  /\ (d[1] > 0 /\ \A i \in 1..m : d[i] = d[1])
                         => /\ mean = Frac(d[1], fs)
                            /\ hr = Frac(60 * fs, d[1])
                            /\ sd = <<0, 1>>

\* compute_hr on three equally spaced peaks
C6_EquallySpacedPeaks ==
    /\ call.op = "compute_hr"
    /\ Len(call.args.peak_indices) = 3
    /\ call.args.peak_indices[2] - call.args.peak_indices[1] = 2
    /\ call.args.peak_indices[3] - call.args.peak_indices[2] = 2
    /\ call.ret[1] = Frac(60 * call.pre.fs, 2)
    /\ call.ret[3] = <<0, 1>>

\* the analyze_roi calls that returned a delay computed on the extracted
\* samples themselves
DelayComputed ==
    /\ call.op = "analyze_roi"
    /\ call.outcome = "ok"
    /\ IsRaw(call.cond.ppg_f)
    /\ IsRaw(call.cond.ecg_f)

\* the two aligned segments of the call
EcgCut == SubSeq(call.cond.ecg_f.x, 1,
                 Min2(Len(call.cond.ppg_f.x), Len(call.cond.ecg_f.x)))
PpgCut == SubSeq(call.cond.ppg_f.x, 1,
                 Min2(Len(call.cond.ppg_f.x), Len(call.cond.ecg_f.x)))

\* a segment less its mean, times its length: its z-score up to a factor
\* that is positive unless the segment is constant
Centered(x) == [i \in DOMAIN x |-> Len(x) * x[i] - SumSeq(x)]

\* the cross-correlation of y0 against x0 at lag k: sum of y0[n + k] * x0[n]
XcAt(y0, x0, k) ==
    SumSeq([n \in DOMAIN x0 |->
               IF n + k >= 1 /\ n + k <= Len(y0) THEN y0[n + k] * x0[n]
               ELSE 0])

\* k is a lag at which the cross-correlation is largest
MaxLag(y0, x0, k) ==
    LET lags == (1 - Len(x0))..(Len(x0) - 1)
    IN  /\ k \in lags
        /\ \A j \in lags : XcAt(y0, x0, j) <= XcAt(y0, x0, k)

\* every sample of x is the same
IsConstant(x) == \A i \in DOMAIN x : x[i] = x[1]

\* the cross-correlation has one largest entry
UniqueMaxLag(y0, x0) ==
    LET lags == (1 - Len(x0))..(Len(x0) - 1)
    IN  \E k \in lags : \A j \in lags \ {k} : XcAt(y0, x0, j) < XcAt(y0, x0, k)

\* y is x delayed by d samples: x moved d places later, zeros before
DelayedBy(x, y, d) ==
    \A i \in DOMAIN y : y[i] = IF i > d THEN x[i - d] ELSE 0

\* x is zero but for one sample, at index a
ImpulseAt(x, a) ==
    a \in DOMAIN x /\ x[a] # 0 /\ \A i \in DOMAIN x \ {a} : x[i] = 0

\* C7 as stated: the delay is k/fs for a lag k in -(N-1)..(N-1) where the
\* cross-correlation of the z-scored PPG against the z-scored ECG is
\* largest, and when the PPG segment is the ECG segment delayed by d >= 0
\* samples and that maximum is unique, the delay is +d/fs.
C7_DelayedCopyGivesItsDelay ==
    DelayComputed =>
      LET x0 == Centered(EcgCut)
          y0 == Centered(PpgCut)
          fs == call.pre.fs
      IN  /\ \E k \in (1 - Len(x0))..(Len(x0) - 1) :
                 /\ call.ret.delay_xcorr_s = Frac(k, fs)
                 /\ \A j \in (1 - Len(x0))..(Len(x0) - 1) :
                        XcAt(y0, x0, j) <= XcAt(y0, x0, k)
          /\ \A d \in 0..(Len(x0) - 1) :
                 (DelayedBy(EcgCut, PpgCut, d) /\ UniqueMaxLag(y0, x0))
                     => call.ret.delay_xcorr_s = Frac(d, fs)

\* the cross-correlation is largest at lag d and nowhere else
UniqueMaxAt(y0, x0, d) ==
    \A j \in ((1 - Len(x0))..(Len(x0) - 1)) \ {d} :
        XcAt(y0, x0, j) < XcAt(y0, x0, d)

\* C7, amended: the delay is k/fs for a lag k in -(N-1)..(N-1) where the
\* cross-correlation of the z-scored PPG against the z-scored ECG is
\* largest; when the PPG segment is the ECG segment delayed by d >= 0
\* samples and the correlation has its unique maximum at lag d, the delay
\* is +d/fs.  That is so for d = 0 whenever the segment is not constant,
\* and for an ECG segment of N >= 3 samples that is zero but for one
\* sample when the delayed sample is still inside the segment.
C7_MaxLagOverFs ==
    DelayComputed =>
      LET x0 == Centered(EcgCut)
          y0 == Centered(PpgCut)
          fs == call.pre.fs
      IN  /\ \E k \in (1 - Len(x0))..(Len(x0) - 1) :
                 /\ call.ret.delay_xcorr_s = Frac(k, fs)
                 /\ MaxLag(y0, x0, k)
          /\ \A d \in 0..(Len(x0) - 1) :
                 (DelayedBy(EcgCut, PpgCut, d) /\ UniqueMaxAt(y0, x0, d))
                     => call.ret.delay_xcorr_s = Frac(d, fs)
          /\ (DelayedBy(EcgCut, PpgCut, 0) /\ ~IsConstant(EcgCut))
                 => call.ret.delay_xcorr_s = Frac(0, fs)
          /\ \A a \in DOMAIN x0 : \A d \in 0..(Len(x0) - a) :
                 (/\ Len(x0) >= 3
                  /\ ImpulseAt(EcgCut, a)
                  /\ DelayedBy(EcgCut, PpgCut, d))
                     => call.ret.delay_xcorr_s = Frac(d, fs)

\* a PPG impulse one sample after the ECG impulse, reported as +1/fs
C7_ImpulseDelayedByOne ==
    /\ DelayComputed
    /\ Len(EcgCut) >= 3
    /\ ImpulseAt(EcgCut, 1)
    /\ DelayedBy(EcgCut, PpgCut, 1)
    /\ call.ret.delay_xcorr_s = Frac(1, call.pre.fs)

\* the analyze_roi calls that got past the filter selection
Conditioned ==
    /\ call.op = "analyze_roi"
    /\ ~RoiUnset(call.pre)
    /\ call.at \notin {"detrend_ppg", "detrend_ecg", "bandpass_ecg",
                       "bandpass_ppg"}

\* seg is the segment from with one more transform, a band-pass with the
\* cutoffs low and high (tenths of a Hz)
BandPassed(seg, from, low, high) ==
    /\ seg.x = from.x
    /\ seg.via = from.via \o <<<<"bandpass", low, high>>>>

\* C8: the filter mode selects which segments analyze_roi band-passes:
\* "default" and "ppg_ecg" both (ECG 5-15 Hz, PPG 0.5-5 Hz), "ppg_only" the
\* PPG (0.5-5 Hz) with the ECG unchanged, "off" and any other string
\* neither; a mode that leaves a segment unchanged never makes its filter
\* fail.
C8_FilterModeSelectsBandpass ==
    /\ Conditioned =>
         LET mode == call.args.filt_mode
             c == call.cond
         IN  /\ mode \in {"default", "ppg_ecg"}
                    => /\ BandPassed(c.ecg_f, c.ecg_roi, 50, 150)
                       /\ BandPassed(c.ppg_f, c.ppg_roi, 5, 50)
             /\ mode = "ppg_only"
                    => /\ c.ecg_f = c.ecg_roi
                       /\ BandPassed(c.ppg_f, c.ppg_roi, 5, 50)
             /\ mode \notin {"default", "ppg_ecg", "ppg_only"}
                    => /\ c.ecg_f = c.ecg_roi
                       /\ c.ppg_f = c.ppg_roi
    /\ call.op = "analyze_roi" =>
         /\ call.args.filt_mode \notin {"default", "ppg_ecg"}
                => call.at # "bandpass_ecg"
         /\ call.args.filt_mode \notin {"default", "ppg_ecg", "ppg_only"}
                => call.at # "bandpass_ppg"

\* a successful "ppg_only" analysis: PPG band-passed, ECG as extracted
C8_PpgOnlyAnalysed ==
    /\ call.op = "analyze_roi"
    /\ call.outcome = "ok"
    /\ call.args.filt_mode = "ppg_only"
    /\ IsRaw(call.cond.ecg_f)
    /\ BandPassed(call.cond.ppg_f, call.cond.ppg_roi, 5, 50)

-----------------------------------------------------------------------------
(* Properties of the helpers *)

\* s is the prefix of length n of the sequence a
PrefixOf(s, a, n) ==
    /\ Len(s) = n
    /\ n <= Len(a)
    /\ \A i \in 1..n : s[i] = a[i]

\* C11: align_signals(a, b) returns (a', b') of length min(len(a), len(b))
\* each, a' the prefix of a and b' the prefix of b of that length;
\* align_signals applied to (a', b') returns them unchanged.
C11_AlignTruncatesToShorter ==
    call.op = "align_signals" =>
        LET a == call.args.ppg
            b == call.args.ecg
            n == IF Len(a) <= Len(b) THEN Len(a) ELSE Len(b)
        IN  /\ PrefixOf(call.ret[1], a, n)
            /\ PrefixOf(call.ret[2], b, n)
            /\ call.again => (call.ret[1] = a /\ call.ret[2] = b)

\* align_signals applied again to a pair of two samples each that it returned
C11_AlignedAgain ==
    /\ call.op = "align_signals"
    /\ call.again
    /\ Len(call.ret[1]) = 2
    /\ call.ret[1] # call.ret[2]

\* C12: on every non-empty constant segment compute_sqi does not fail and
\* returns flatness = 1.0 and saturation = 1.0.
C12_FlatSegmentSqi ==
    (call.op = "compute_sqi"
     /\ Len(call.args.x) >= 1
     /\ IsConstant(call.args.x))
        => /\ call.outcome = "ok"
           /\ call.ret.flatness = <<1, 1>>
           /\ call.ret.saturation = <<1, 1>>

-----------------------------------------------------------------------------
(* Properties of the returned result *)

\* r carries the configuration cfg and the length of the ROI of t
SnapshotOf(r, cfg, t) ==
    /\ r.start_s = cfg.rs[1]
    /\ r.end_s = cfg.re[1]
    /\ r.fs = cfg.fs
    /\ r.n_samples = Len(RoiSlice(cfg, t))

\* C14: a ROIResult returned by analyze_roi has start_s, end_s and fs equal
\* to roi_start, roi_end and sampling_rate at the moment of the call and
\* n_samples equal to the length of the ROI extracted from the time array;
\* no later set_roi, set_sampling_rate or analyze_roi call changes a field
\* of a result already returned.
C14_ResultIsSnapshot ==
    /\ [](/\ (call.op = "analyze_roi" /\ call.outcome = "ok")
                => SnapshotOf(call.ret, call.pre, call.args.t)
          /\ held # None => SnapshotOf(held.result, held.cfg, held.t))
    /\ [][held # None => held' = held]_vars

\* a kept result whose engine has since been given another rate and ROI
C14_ResultOutlivesConfig ==
    /\ held # None
    /\ held.result.fs # sampling_rate
    /\ held.result.start_s # roi_start[1]
    /\ held.result.n_samples > 0
    /\ call.op = "analyze_roi"

-----------------------------------------------------------------------------
(* Properties of the window *)

\* the region callbacks that have not returned, outermost first
Callbacks == SelectSeq(stack, IsCallback)

\* C13: a region change made on one plot is copied to the other plot by one
\* setRegion call; the callback that call starts on the other plot returns
\* at the lock without copying back, so no callback runs below the second
\* level; _region_sync_lock is False whenever no callback is running, also
\* after one that raised; and when the outermost callback has returned
\* normally both regions are the same (start, end).
C13_RegionsSyncOnce ==
    /\ Len(Callbacks) <= 2
    /\ \A i \in DOMAIN Callbacks : i > 1 => Callbacks[i].pc = "lock"
    /\ Callbacks = <<>> => region_sync_lock = FALSE
    /\ event # None =>
         /\ event.calls <= 1
         /\ event.nested <= MaxEmits
         /\ event.done = "running" <=> Callbacks # <<>>
         /\ event.done = "returned"
                => /\ event.calls = 1
                   /\ region_ppg = region_ecg
                   /\ region_ppg = event.region

\* a region moved on the ECG plot, copied to the PPG plot, whose callback
\* returned at the lock, all callbacks over
C13_EcgMoveCopiedToPpg ==
    /\ event # None
    /\ event.origin = "ecg"
    /\ event.done = "returned"
    /\ event.nested >= 1
    /\ region_ppg = event.region
    /\ stack = <<>>

\* C15: no engine error leaves the Analyze handler: with no recording or no
\* region it warns and returns with the analyzer's configuration untouched,
\* and every failure of the engine, InvalidRange from set_roi (a region with
\* start = end) as well as a failure inside analyze_roi, ends in the error
\* box and a normal return with the status text unchanged.
C15_NoEngineErrorEscapes ==
    call.op = "analyze_clicked" =>
        /\ call.outcome # "raised"
        /\ call.outcome = "warned" => ~call.configured
        /\ call.outcome \in {"warned", "error_box"}
               => ~call.status_set
        /\ call.inner # "ok" => call.outcome \in {"warned", "error_box"}

=============================================================================
